---- MODULE Spec2Model ----
(***************************************************************************)
(* Weekly visit reward system (food-shop-loyalty-system/index.tsx).        *)
(*                                                                         *)
(* The App component is modelled as a state machine: the React state of    *)
(* App (users, shops, scans, currentUser, activeTab, ...) are the          *)
(* variables, every event handler is one action.  Time is the millisecond  *)
(* clock scaled down: a day has DayLen clock units, the device's time zone *)
(* is a fixed offset tz of whole units, and a date string "YYYY-MM-DD" is  *)
(* the number of its day.  Local day 0 is a Sunday.                        *)
(***************************************************************************)
EXTENDS Integers, Sequences, FiniteSets, TLC

VARIABLES
    tz,                   \* local time minus UTC, in clock units (fixed per run)
    now,                  \* Date.now(), in clock units
    users,                \* AppUser[]
    shops,                \* Shop[]
    scans,                \* ScanRecord[]
    currentUser,          \* AppUser | null
    activeTab,            \* 'home' | 'shop' | 'customer' | 'scan' | 'admin'
    regRole,              \* role selected in the registration form
    isRegistering,        \* registration form / shop form open
    verifyingShopId,      \* shop id of the open verification form | null
    recentRegisteredShop, \* Shop shown in the registration success modal | null
    pendingScanShop,      \* Shop of the scan confirmation modal | null
    showVisitSuccess,     \* "Visit Complete!" overlay shown
    lastSuccessDate,      \* date string shown in the overlay | null
    timers,               \* number of pending setTimeout callbacks of recordVisit
    lastAlert,            \* message shown by the latest handler (alert / setError)
    storage,              \* localStorage: the four items of STORAGE_KEYS
    viewDate              \* viewDate of the mounted CustomerDashboard

vars == <<tz, now, users, shops, scans, currentUser, activeTab, regRole,
          isRegistering, verifyingShopId, recentRegisteredShop, pendingScanShop,
          showVisitSuccess, lastSuccessDate, timers, lastAlert, storage,
          viewDate>>

----------------------------------------------------------------------------
(* Bounds of the model *)

DayLen == 2            \* clock units per day (24 * 60 * 60 * 1000 ms, scaled)
MaxTicks == 2          \* clock units the run may last after StartTime
MaxUsers == 1          \* registrations per run
MaxWeeksAway == 1      \* weeks the calendar is navigated away from the current one
MaxShops == 1          \* shops created per run

(* Program constants *)

WeekLen == 7           \* days of the week window
RewardDays == 6        \* unique days that unlock the reward

NoAlert == "none"

\* a template string `prefix${Date.now()}`; the empty string is Id("", 0)
Id(prefix, ms) == <<prefix, ms>>
EmptyId == Id("", 0)

\* null, for the states that hold an AppUser, a Shop or a date string
NoUser == [id |-> EmptyId, name |-> "", email |-> "", role |-> "none"]
NoShop == [id |-> EmptyId, name |-> "", type |-> "", ownerId |-> EmptyId,
           ownerEmail |-> "", verificationStatus |-> "", licenseNumber |-> "",
           secretCode |-> ""]
NoDate == <<>>

StartTime == (WeekLen - 1) * DayLen  \* a Saturday, 00:00 UTC
EndTime == StartTime + MaxTicks
TZOffsets == {-1, 0, 1}

----------------------------------------------------------------------------
(* Date arithmetic, as the JavaScript Date object does it *)

\* new Date("YYYY-MM-DD").getTime(): a date-only string is midnight UTC
ParseDate(d) == d * DayLen

\* new Date().toISOString().split('T')[0]: the UTC calendar date of t
ISODate(t) == t \div DayLen

\* new Date(t).toDateString(): the local calendar day of t
ToDateString(t) == (t + tz) \div DayLen

\* local time of day of t (getHours, getMinutes, getSeconds, getMilliseconds)
TimeOfDay(t) == (t + tz) % DayLen

\* d.setHours(h, m, s, ms): same local calendar day, local time of day tod
SetHours(t, tod) == ToDateString(t) * DayLen + tod - tz

\* new Date(t).getDay(): local day of the week, 0 is Sunday
GetDay(t) == ToDateString(t) % WeekLen

\* new Date(now.setDate(now.getDate() - now.getDay())): same local time of
\* day, getDay() local days earlier
SetDateBack(t, n) == t - n * DayLen

\* the date strings a caller can give for a visit at time t
DateInputs(t) == {ISODate(t) - 1, ISODate(t), ISODate(t) + 1}

----------------------------------------------------------------------------
(* Sequence helpers *)

Range(s) == {s[i] : i \in DOMAIN s}

\* Array.prototype.find: <<the first element with the id>>, or <<>> for undefined
FindById(s, id) ==
    IF \E i \in DOMAIN s : s[i].id = id
    THEN <<s[CHOOSE i \in DOMAIN s : s[i].id = id /\ \A j \in 1..(i - 1) : s[j].id # id]>>
    ELSE <<>>

----------------------------------------------------------------------------
(* Logic helpers of App *)

\* a plausible slip in the window of getWeeklyScans: `<=` at its end
WeeklyFilter_ClosedWindow(customerId, shopId, weekStart) ==
    SelectSeq(scans, LAMBDA s :
        /\ s.customerId = customerId
        /\ s.shopId = shopId
        /\ s.timestamp >= weekStart
        /\ s.timestamp <= weekStart + WeekLen * DayLen)

\* a plausible slip in the window of getWeeklyScans: `>` at its start
WeeklyFilter_OpenStart(customerId, shopId, weekStart) ==
    SelectSeq(scans, LAMBDA s :
        /\ s.customerId = customerId
        /\ s.shopId = shopId
        /\ s.timestamp > weekStart
        /\ s.timestamp < weekStart + WeekLen * DayLen)

\* `weekly` of getWeeklyScans: scans.filter(...), the records of (customer,
\* shop) in the half-open window of the week starting at weekStart
WeeklyFilter(customerId, shopId, weekStart) ==
    SelectSeq(scans, LAMBDA s :
        /\ s.customerId = customerId
        /\ s.shopId = shopId
        /\ s.timestamp >= weekStart
        /\ s.timestamp < weekStart + WeekLen * DayLen)

\* s[i] is the first occurrence of its value in s
IsFirst(s, i) == \A j \in 1..(i - 1) : s[j] # s[i]

\* Array.from(new Set(s)): the first occurrence of every value, in order
ArrayFromSet(s) ==
    [k \in 1..Cardinality({i \in DOMAIN s : IsFirst(s, i)}) |->
        s[CHOOSE i \in DOMAIN s :
             IsFirst(s, i) /\ Cardinality({j \in 1..i : IsFirst(s, j)}) = k]]

\* weekly.map(s => new Date(s.timestamp).toDateString())
DateStrings(weekly) == [i \in DOMAIN weekly |-> ToDateString(weekly[i].timestamp)]

\* getWeeklyScans: the date strings of the unique days of `weekly`; as in
\* the code, `weekly` and the mapped array are each evaluated once
getWeeklyScans(customerId, shopId, weekStart) ==
    CHOOSE uniqueDays \in
        {ArrayFromSet(days) :
            days \in {DateStrings(weekly) :
                        weekly \in {WeeklyFilter(customerId, shopId, weekStart)}}} : TRUE

checkVisitedOnDate(customerId, shopId, dateStr) ==
    \E i \in DOMAIN scans :
        /\ scans[i].customerId = customerId
        /\ scans[i].shopId = shopId
        /\ ToDateString(scans[i].timestamp) = dateStr

\* a plausible slip in startOfWeek: a week that starts on Monday
StartOfWeek_Monday(t) == SetHours(SetDateBack(t, (GetDay(t) + WeekLen - 1) % WeekLen), 0)

\* startOfWeek of getRewardEligibility: the most recent Sunday, local midnight
StartOfWeek(t) == SetHours(SetDateBack(t, GetDay(t)), 0)

\* a plausible slip in the threshold: `===` for `>=`
getRewardEligibility_Exactly(customerId, shopId) ==
    Len(getWeeklyScans(customerId, shopId, StartOfWeek(now))) = RewardDays

getRewardEligibility(customerId, shopId) ==
    Len(getWeeklyScans(customerId, shopId, StartOfWeek(now))) >= RewardDays

----------------------------------------------------------------------------
(* What the user can type or pick *)

RegRoles == {"customer", "owner"}            \* the two buttons of RegistrationView
ShopTypes == {"fast-food"}
SecretInputs == {"", " aB"}                  \* newShopSecretCode, stored as typed
RandomDraws == {0, 8999}                     \* Math.floor(Math.random() * 9000)
TypedCodes == {"aB", "ab", "1000"}           \* secrets typed by a customer
ManualSecrets == TypedCodes \cup {" aB", " "} \* manualSecret, before trim()
TransactionIds == {"", "T1"}
Licenses == {"", "BR-8829"}
UnknownShopId == Id("shop_", 0)
TypedShopIds == {shops[i].id : i \in DOMAIN shops} \cup {UnknownShopId}

(* Caps that keep the run finite *)

CreatedInRun(s) == Cardinality({i \in DOMAIN s : s[i].id[2] >= StartTime})
ClockLeft == now < EndTime

----------------------------------------------------------------------------
(* What is rendered *)

\* The overlays are full-screen layers (fixed inset-0) stacked above the page:
\* the visit success overlay (z-80) above the scan confirmation modal (z-70)
\* above the registration success modal (z-60) above the page and its
\* navigation (z-50).  A layer takes every click on what lies below it.
ScanModalShown == pendingScanShop # NoShop /\ currentUser # NoUser
ScanModalOnTop == ScanModalShown /\ ~showVisitSuccess
RegistrationSuccessOnTop ==
    recentRegisteredShop # NoShop /\ ~ScanModalShown /\ ~showVisitSuccess
PageOnTop == recentRegisteredShop = NoShop /\ ~ScanModalShown /\ ~showVisitSuccess

RegistrationShown == PageOnTop /\ isRegistering /\ currentUser = NoUser
MainShown == PageOnTop /\ ~(isRegistering /\ currentUser = NoUser)
HomeShown == MainShown /\ activeTab = "home"
ShopDashboardShown == MainShown /\ activeTab = "shop"
AdminPanelShown == MainShown /\ activeTab = "admin"
CustomerDashboardShown == MainShown /\ activeTab = "customer"
ScannerShown == MainShown /\ activeTab = "scan"

\* <CustomerDashboard> is in the tree, under the overlays or not
CustomerDashboardMounted ==
    ~(isRegistering /\ currentUser = NoUser) /\ activeTab = "customer"

\* filteredShops, for some choice of filterType and searchTerm
OwnerView(shop) == currentUser.role = "owner" => shop.ownerId = currentUser.id

\* unverifiedShops
unverifiedShops ==
    SelectSeq(shops, LAMBDA s : s.ownerId = currentUser.id
                                /\ s.verificationStatus = "unverified")

\* filteredShops, with filterType 'all' and an empty searchTerm
filteredShops == SelectSeq(shops, OwnerView)

\* a plausible slip in eligibleCount: the size of the array, not of the Set
eligibleCount_PerRecord(shop) ==
    Len(SelectSeq(scans, LAMBDA s : s.shopId = shop.id
                                    /\ getRewardEligibility(s.customerId, shop.id)))

\* eligibleCount of a shop card: the size of the Set of the customerId of
\* the shop's records whose customer is eligible
eligibleCount(shop) ==
    Cardinality({s.customerId : s \in
        {r \in Range(scans) : r.shopId = shop.id
                              /\ getRewardEligibility(r.customerId, shop.id)}})

----------------------------------------------------------------------------
(* Registration and session *)

\* HomeView "Join as Customer" / "Register your Shop"
HomeJoin(role) ==
    /\ HomeShown /\ currentUser = NoUser
    /\ regRole' = role
    /\ isRegistering' = TRUE
    /\ lastAlert' = NoAlert
    /\ UNCHANGED <<tz, now, users, shops, scans, currentUser, activeTab,
                   verifyingShopId, recentRegisteredShop, pendingScanShop,
                   showVisitSuccess, lastSuccessDate, timers>>

\* nav "Get Started"
GetStarted ==
    /\ PageOnTop
    /\ currentUser = NoUser
    /\ ~isRegistering
    /\ isRegistering' = TRUE
    /\ lastAlert' = NoAlert
    /\ UNCHANGED <<tz, now, users, shops, scans, currentUser, activeTab, regRole,
                   verifyingShopId, recentRegisteredShop, pendingScanShop,
                   showVisitSuccess, lastSuccessDate, timers>>

\* RegistrationView role buttons
SetRegRole(role) ==
    /\ RegistrationShown
    /\ regRole # role
    /\ regRole' = role
    /\ lastAlert' = NoAlert
    /\ UNCHANGED <<tz, now, users, shops, scans, currentUser, activeTab,
                   isRegistering, verifyingShopId, recentRegisteredShop,
                   pendingScanShop, showVisitSuccess, lastSuccessDate, timers>>

\* a plausible slip in handleRegister: setUsers([newUser]) for
\* setUsers([...users, newUser])
handleRegister_Overwrite(regName, regEmail) ==
    /\ RegistrationShown
    /\ lastAlert' = NoAlert
    /\ IF regName = "" \/ regEmail = ""
       THEN UNCHANGED <<tz, now, users, shops, scans, currentUser, activeTab,
                        regRole, isRegistering, verifyingShopId,
                        recentRegisteredShop, pendingScanShop, showVisitSuccess,
                        lastSuccessDate, timers>>
       ELSE /\ ClockLeft /\ CreatedInRun(users) < MaxUsers
            /\ LET newUser == [id |-> Id("u_", now), name |-> regName,
                               email |-> regEmail, role |-> regRole]
               IN /\ users' = <<newUser>>
                  /\ currentUser' = newUser
            /\ activeTab' = IF regRole = "owner" THEN "shop" ELSE "customer"
            /\ now' = now + 1
            /\ UNCHANGED <<tz, shops, scans, regRole, isRegistering,
                           verifyingShopId, recentRegisteredShop, pendingScanShop,
                           showVisitSuccess, lastSuccessDate, timers>>

handleRegister(regName, regEmail) ==
    /\ RegistrationShown
    /\ lastAlert' = NoAlert
    /\ IF regName = "" \/ regEmail = ""
       THEN UNCHANGED <<tz, now, users, shops, scans, currentUser, activeTab,
                        regRole, isRegistering, verifyingShopId,
                        recentRegisteredShop, pendingScanShop, showVisitSuccess,
                        lastSuccessDate, timers>>
       ELSE /\ ClockLeft /\ CreatedInRun(users) < MaxUsers
            /\ LET newUser == [id |-> Id("u_", now), name |-> regName,
                               email |-> regEmail, role |-> regRole]
               IN /\ users' = Append(users, newUser)
                  /\ currentUser' = newUser
            /\ activeTab' = IF regRole = "owner" THEN "shop" ELSE "customer"
            /\ now' = now + 1
            /\ UNCHANGED <<tz, shops, scans, regRole, isRegistering,
                           verifyingShopId, recentRegisteredShop, pendingScanShop,
                           showVisitSuccess, lastSuccessDate, timers>>

logout ==
    /\ PageOnTop
    /\ currentUser # NoUser
    /\ currentUser' = NoUser
    /\ activeTab' = "home"
    /\ lastAlert' = NoAlert
    /\ UNCHANGED <<tz, now, users, shops, scans, regRole, isRegistering,
                   verifyingShopId, recentRegisteredShop, pendingScanShop,
                   showVisitSuccess, lastSuccessDate, timers>>

\* the Logout button reached with the keyboard (Tab, Enter) while an overlay
\* covers the page: no overlay takes the focus or makes the page inert
logoutByKeyboard ==
    /\ ~PageOnTop
    /\ currentUser # NoUser
    /\ currentUser' = NoUser
    /\ activeTab' = "home"
    /\ lastAlert' = NoAlert
    /\ UNCHANGED <<tz, now, users, shops, scans, regRole, isRegistering,
                   verifyingShopId, recentRegisteredShop, pendingScanShop,
                   showVisitSuccess, lastSuccessDate, timers>>

\* the tabs the navigation bar and the mobile tab bar offer to the role
TabOffered(tab) ==
    \/ tab = "home"
    \/ tab = "customer" /\ currentUser.role = "customer"
    \/ tab = "scan" /\ currentUser.role = "customer"
    \/ tab = "shop" /\ currentUser.role \in {"owner", "admin"}

setActiveTab(tab) ==
    /\ PageOnTop
    /\ TabOffered(tab)
    /\ activeTab # tab
    /\ activeTab' = tab
    /\ lastAlert' = NoAlert
    /\ UNCHANGED <<tz, now, users, shops, scans, currentUser, regRole,
                   isRegistering, verifyingShopId, recentRegisteredShop,
                   pendingScanShop, showVisitSuccess, lastSuccessDate, timers>>

----------------------------------------------------------------------------
(* Shops and verification *)

\* ShopDashboard "Register New Shop"
OpenShopForm ==
    /\ ShopDashboardShown
    /\ ~isRegistering
    /\ isRegistering' = TRUE
    /\ lastAlert' = NoAlert
    /\ UNCHANGED <<tz, now, users, shops, scans, currentUser, activeTab, regRole,
                   verifyingShopId, recentRegisteredShop, pendingScanShop,
                   showVisitSuccess, lastSuccessDate, timers>>

\* shop form "Cancel"
CancelShopForm ==
    /\ ShopDashboardShown
    /\ isRegistering
    /\ isRegistering' = FALSE
    /\ lastAlert' = NoAlert
    /\ UNCHANGED <<tz, now, users, shops, scans, currentUser, activeTab, regRole,
                   verifyingShopId, recentRegisteredShop, pendingScanShop,
                   showVisitSuccess, lastSuccessDate, timers>>

\* a plausible slip in the generated secret: the offset 1000 left out
SecretCodeFor_NoOffset(newShopSecretCode, draw) ==
    IF newShopSecretCode # "" THEN newShopSecretCode ELSE ToString(draw)

\* newShopSecretCode || Math.floor(1000 + Math.random() * 9000).toString()
SecretCodeFor(newShopSecretCode, draw) ==
    IF newShopSecretCode # "" THEN newShopSecretCode ELSE ToString(1000 + draw)

addShop(newShopName, newShopEmail, newShopType, newShopSecretCode, draw) ==
    /\ ShopDashboardShown
    /\ isRegistering
    /\ lastAlert' = NoAlert
    /\ IF newShopName = "" \/ newShopEmail = "" \/ currentUser = NoUser
       THEN UNCHANGED <<tz, now, users, shops, scans, currentUser, activeTab,
                        regRole, isRegistering, verifyingShopId,
                        recentRegisteredShop, pendingScanShop, showVisitSuccess,
                        lastSuccessDate, timers>>
       ELSE /\ ClockLeft /\ CreatedInRun(shops) < MaxShops
            /\ LET newShop == [id |-> Id("shop_", now),
                               name |-> newShopName,
                               type |-> newShopType,
                               ownerId |-> currentUser.id,
                               ownerEmail |-> newShopEmail,
                               verificationStatus |-> "unverified",
                               licenseNumber |-> "",
                               secretCode |-> SecretCodeFor(newShopSecretCode, draw)]
               IN /\ shops' = Append(shops, newShop)
                  /\ recentRegisteredShop' = newShop
            /\ isRegistering' = FALSE
            /\ now' = now + 1
            /\ UNCHANGED <<tz, users, scans, currentUser, activeTab, regRole,
                           verifyingShopId, pendingScanShop, showVisitSuccess,
                           lastSuccessDate, timers>>

\* RegistrationSuccessModal onClose
CloseRegistrationSuccess ==
    /\ RegistrationSuccessOnTop
    /\ recentRegisteredShop' = NoShop
    /\ lastAlert' = NoAlert
    /\ UNCHANGED <<tz, now, users, shops, scans, currentUser, activeTab, regRole,
                   isRegistering, verifyingShopId, pendingScanShop,
                   showVisitSuccess, lastSuccessDate, timers>>

\* banner "Start Verification": setVerifyingShopId(unverifiedShops[0].id)
StartVerification ==
    /\ ShopDashboardShown
    /\ Len(unverifiedShops) > 0
    /\ verifyingShopId = EmptyId
    /\ verifyingShopId' = unverifiedShops[1].id
    /\ lastAlert' = NoAlert
    /\ UNCHANGED <<tz, now, users, shops, scans, currentUser, activeTab, regRole,
                   isRegistering, recentRegisteredShop, pendingScanShop,
                   showVisitSuccess, lastSuccessDate, timers>>

\* a plausible slip in the shop card: "Verify Now" on every card
VerifyNow_AnyStatus(i) ==
    /\ ShopDashboardShown
    /\ i \in DOMAIN shops
    /\ OwnerView(shops[i])
    /\ verifyingShopId # shops[i].id
    /\ verifyingShopId' = shops[i].id
    /\ lastAlert' = NoAlert
    /\ UNCHANGED <<tz, now, users, shops, scans, currentUser, activeTab, regRole,
                   isRegistering, recentRegisteredShop, pendingScanShop,
                   showVisitSuccess, lastSuccessDate, timers>>

\* shop card "Verify Now"
VerifyNow(i) ==
    /\ ShopDashboardShown
    /\ i \in DOMAIN shops
    /\ OwnerView(shops[i])
    /\ shops[i].verificationStatus = "unverified"
    /\ verifyingShopId # shops[i].id
    /\ verifyingShopId' = shops[i].id
    /\ lastAlert' = NoAlert
    /\ UNCHANGED <<tz, now, users, shops, scans, currentUser, activeTab, regRole,
                   isRegistering, recentRegisteredShop, pendingScanShop,
                   showVisitSuccess, lastSuccessDate, timers>>

\* verification form "Later"
CancelVerification ==
    /\ ShopDashboardShown
    /\ verifyingShopId # EmptyId
    /\ verifyingShopId' = EmptyId
    /\ lastAlert' = NoAlert
    /\ UNCHANGED <<tz, now, users, shops, scans, currentUser, activeTab, regRole,
                   isRegistering, recentRegisteredShop, pendingScanShop,
                   showVisitSuccess, lastSuccessDate, timers>>

\* a plausible slip in the map: the patch without the spread of s
MapShops_NoSpread(shopId, status, license) ==
    [i \in DOMAIN shops |->
        IF shops[i].id = shopId
        THEN [NoShop EXCEPT !.id = shopId,
                            !.verificationStatus = status,
                            !.licenseNumber = license]
        ELSE shops[i]]

\* shops.map(s => s.id === shopId ? {...s, ...patch} : s)
MapShops(shopId, status, license) ==
    [i \in DOMAIN shops |->
        IF shops[i].id = shopId
        THEN [shops[i] EXCEPT !.verificationStatus = status,
                              !.licenseNumber = IF license = "" THEN @ ELSE license]
        ELSE shops[i]]

\* a plausible slip in submitVerification: no test of the license
submitVerification_NoValidation(license) ==
    /\ ShopDashboardShown
    /\ verifyingShopId # EmptyId
    /\ shops' = MapShops(verifyingShopId, "pending", license)
    /\ verifyingShopId' = EmptyId
    /\ lastAlert' = "Verification details submitted for review."
    /\ UNCHANGED <<tz, now, users, scans, currentUser, activeTab, regRole,
                   isRegistering, recentRegisteredShop, pendingScanShop,
                   showVisitSuccess, lastSuccessDate, timers>>

\* verification form "Submit Verification"
submitVerification(license) ==
    /\ ShopDashboardShown
    /\ verifyingShopId # EmptyId
    /\ IF license = ""
       THEN /\ lastAlert' = "Please enter a valid license number."
            /\ UNCHANGED <<shops, verifyingShopId>>
       ELSE /\ shops' = MapShops(verifyingShopId, "pending", license)
            /\ verifyingShopId' = EmptyId
            /\ lastAlert' = "Verification details submitted for review."
    /\ UNCHANGED <<tz, now, users, scans, currentUser, activeTab, regRole,
                   isRegistering, recentRegisteredShop, pendingScanShop,
                   showVisitSuccess, lastSuccessDate, timers>>

\* ShopDashboard "System Review"
OpenAdminPanel ==
    /\ ShopDashboardShown
    /\ currentUser.role = "admin"
    /\ activeTab' = "admin"
    /\ lastAlert' = NoAlert
    /\ UNCHANGED <<tz, now, users, shops, scans, currentUser, regRole,
                   isRegistering, verifyingShopId, recentRegisteredShop,
                   pendingScanShop, showVisitSuccess, lastSuccessDate, timers>>

\* AdminPanel "Back to Dashboard"
BackToDashboard ==
    /\ AdminPanelShown
    /\ activeTab' = "shop"
    /\ lastAlert' = NoAlert
    /\ UNCHANGED <<tz, now, users, shops, scans, currentUser, regRole,
                   isRegistering, verifyingShopId, recentRegisteredShop,
                   pendingScanShop, showVisitSuccess, lastSuccessDate, timers>>

\* a plausible slip in AdminPanel: Approve and Reject on every row
updateVerificationStatus_AnyRow(i, status) ==
    /\ AdminPanelShown
    /\ i \in DOMAIN shops
    /\ shops[i].verificationStatus # status
    /\ shops' = MapShops(shops[i].id, status, "")
    /\ lastAlert' = NoAlert
    /\ UNCHANGED <<tz, now, users, scans, currentUser, activeTab, regRole,
                   isRegistering, verifyingShopId, recentRegisteredShop,
                   pendingScanShop, showVisitSuccess, lastSuccessDate, timers>>

\* AdminPanel Approve / Reject (pending rows), Revoke (verified rows)
updateVerificationStatus(i, status) ==
    /\ AdminPanelShown
    /\ i \in DOMAIN shops
    /\ \/ shops[i].verificationStatus = "pending" /\ status \in {"verified", "unverified"}
       \/ shops[i].verificationStatus = "verified" /\ status = "unverified"
    /\ shops' = MapShops(shops[i].id, status, "")
    /\ lastAlert' = NoAlert
    /\ UNCHANGED <<tz, now, users, scans, currentUser, activeTab, regRole,
                   isRegistering, verifyingShopId, recentRegisteredShop,
                   pendingScanShop, showVisitSuccess, lastSuccessDate, timers>>

----------------------------------------------------------------------------
(* Visit recorder *)

AlertShopNotFound == "Shop not found."
AlertInvalidShopId == "Invalid Shop ID. Please check and try again."
AlertInvalidCode == "Invalid Secret Verification Code. Please try again."
AlertDuplicate == "A visit is already recorded for this date."
AlertInvalidShopCode == "Invalid shop code. Please check and try again."
ErrorInvalidCode == "Invalid Secret Code. Please ask the shop for the correct code."
ErrorDuplicate == "A visit is already recorded for this shop on this date."
ErrorQuickCode == "Invalid code. Please check with the shop."

\* selectedDate of recordVisit: the selected date at the current time of day
VisitTimestamp(visitDate, t) == SetHours(ParseDate(visitDate), TimeOfDay(t))

\* a plausible slip in newScan: an id made from the visit date
NewScan_DateId(shopId, transactionId, visitDate) ==
    [id |-> Id("scan_", ParseDate(visitDate)),
     shopId |-> shopId,
     customerId |-> currentUser.id,
     timestamp |-> VisitTimestamp(visitDate, now),
     transactionId |-> transactionId]

\* newScan of recordVisit
NewScan(shopId, transactionId, visitDate) ==
    [id |-> Id("scan_", now),
     shopId |-> shopId,
     customerId |-> currentUser.id,
     timestamp |-> VisitTimestamp(visitDate, now),
     transactionId |-> transactionId]

\* a plausible slip in recordVisit: setScans([newScan]) for
\* setScans([newScan, ...scans])
recordVisit_DropHistory(shopId, transactionId, visitDate) ==
    IF currentUser = NoUser
    THEN /\ lastAlert' = NoAlert
         /\ UNCHANGED <<now, scans, pendingScanShop, showVisitSuccess,
                        lastSuccessDate, timers>>
    ELSE IF FindById(shops, shopId) = <<>>
    THEN /\ lastAlert' = AlertShopNotFound
         /\ UNCHANGED <<now, scans, pendingScanShop, showVisitSuccess,
                        lastSuccessDate, timers>>
    ELSE /\ ClockLeft
         /\ scans' = <<NewScan(shopId, transactionId, visitDate)>>
         /\ pendingScanShop' = NoShop
         /\ lastSuccessDate' = <<visitDate>>
         /\ showVisitSuccess' = TRUE
         /\ timers' = timers + 1
         /\ now' = now + 1
         /\ lastAlert' = NoAlert

\* the state changes of recordVisit; the callers add their own
recordVisit(shopId, transactionId, visitDate) ==
    IF currentUser = NoUser
    THEN /\ lastAlert' = NoAlert
         /\ UNCHANGED <<now, scans, pendingScanShop, showVisitSuccess,
                        lastSuccessDate, timers>>
    ELSE IF FindById(shops, shopId) = <<>>
    THEN /\ lastAlert' = AlertShopNotFound
         /\ UNCHANGED <<now, scans, pendingScanShop, showVisitSuccess,
                        lastSuccessDate, timers>>
    ELSE /\ ClockLeft
         /\ scans' = <<NewScan(shopId, transactionId, visitDate)>> \o scans
         /\ pendingScanShop' = NoShop
         /\ lastSuccessDate' = <<visitDate>>
         /\ showVisitSuccess' = TRUE
         /\ timers' = timers + 1
         /\ now' = now + 1
         /\ lastAlert' = NoAlert

\* the setTimeout callback of recordVisit
VisitSuccessTimeout ==
    /\ timers > 0
    /\ timers' = timers - 1
    /\ showVisitSuccess' = FALSE
    /\ lastSuccessDate' = NoDate
    /\ activeTab' = "customer"
    /\ UNCHANGED <<tz, now, users, shops, scans, currentUser, regRole,
                   isRegistering, verifyingShopId, recentRegisteredShop,
                   pendingScanShop, lastAlert>>

\* a plausible slip in handleDirectManualCheckIn: no duplicate check
handleDirectManualCheckIn_NoDuplicateCheck(shopId, secretCode, transactionId, visitDate) ==
    LET found == FindById(shops, shopId) IN
    IF found = <<>>
    THEN /\ lastAlert' = AlertInvalidShopId
         /\ UNCHANGED <<now, scans, pendingScanShop, showVisitSuccess,
                        lastSuccessDate, timers>>
    ELSE IF found[1].secretCode # secretCode
    THEN /\ lastAlert' = AlertInvalidCode
         /\ UNCHANGED <<now, scans, pendingScanShop, showVisitSuccess,
                        lastSuccessDate, timers>>
    ELSE recordVisit(shopId, transactionId, visitDate)

\* String.prototype.toLowerCase on the strings that can be typed
ToLowerCase(str) == IF str = "aB" THEN "ab" ELSE str

\* a plausible slip in handleDirectManualCheckIn: secrets compared without
\* regard to case
handleDirectManualCheckIn_IgnoreCase(shopId, secretCode, transactionId, visitDate) ==
    LET found == FindById(shops, shopId) IN
    IF found = <<>>
    THEN /\ lastAlert' = AlertInvalidShopId
         /\ UNCHANGED <<now, scans, pendingScanShop, showVisitSuccess,
                        lastSuccessDate, timers>>
    ELSE IF ToLowerCase(found[1].secretCode) # ToLowerCase(secretCode)
    THEN /\ lastAlert' = AlertInvalidCode
         /\ UNCHANGED <<now, scans, pendingScanShop, showVisitSuccess,
                        lastSuccessDate, timers>>
    ELSE IF checkVisitedOnDate(currentUser.id, shopId, ToDateString(ParseDate(visitDate)))
    THEN /\ lastAlert' = AlertDuplicate
         /\ UNCHANGED <<now, scans, pendingScanShop, showVisitSuccess,
                        lastSuccessDate, timers>>
    ELSE recordVisit(shopId, transactionId, visitDate)

\* a plausible slip in handleDirectManualCheckIn: visits only at verified
\* shops
handleDirectManualCheckIn_VerifiedOnly(shopId, secretCode, transactionId, visitDate) ==
    LET found == FindById(shops, shopId) IN
    IF found = <<>> \/ found[1].verificationStatus # "verified"
    THEN /\ lastAlert' = AlertInvalidShopId
         /\ UNCHANGED <<now, scans, pendingScanShop, showVisitSuccess,
                        lastSuccessDate, timers>>
    ELSE IF found[1].secretCode # secretCode
    THEN /\ lastAlert' = AlertInvalidCode
         /\ UNCHANGED <<now, scans, pendingScanShop, showVisitSuccess,
                        lastSuccessDate, timers>>
    ELSE IF checkVisitedOnDate(currentUser.id, shopId, ToDateString(ParseDate(visitDate)))
    THEN /\ lastAlert' = AlertDuplicate
         /\ UNCHANGED <<now, scans, pendingScanShop, showVisitSuccess,
                        lastSuccessDate, timers>>
    ELSE recordVisit(shopId, transactionId, visitDate)

handleDirectManualCheckIn(shopId, secretCode, transactionId, visitDate) ==
    LET found == FindById(shops, shopId) IN
    IF found = <<>>
    THEN /\ lastAlert' = AlertInvalidShopId
         /\ UNCHANGED <<now, scans, pendingScanShop, showVisitSuccess,
                        lastSuccessDate, timers>>
    ELSE IF found[1].secretCode # secretCode
    THEN /\ lastAlert' = AlertInvalidCode
         /\ UNCHANGED <<now, scans, pendingScanShop, showVisitSuccess,
                        lastSuccessDate, timers>>
    ELSE IF checkVisitedOnDate(currentUser.id, shopId, ToDateString(ParseDate(visitDate)))
    THEN /\ lastAlert' = AlertDuplicate
         /\ UNCHANGED <<now, scans, pendingScanShop, showVisitSuccess,
                        lastSuccessDate, timers>>
    ELSE recordVisit(shopId, transactionId, visitDate)

\* a plausible slip in onScanMatch: a confirmation opened for the typed id
\* without looking the shop up
onScanMatch_NoLookup(shopId) ==
    /\ pendingScanShop' = [NoShop EXCEPT !.id = shopId]
    /\ lastAlert' = NoAlert

onScanMatch(shopId) ==
    LET found == FindById(shops, shopId) IN
    IF found # <<>>
    THEN /\ pendingScanShop' = found[1]
         /\ lastAlert' = NoAlert
    ELSE /\ pendingScanShop' = pendingScanShop
         /\ lastAlert' = AlertInvalidShopCode

\* ShopDashboard "Generate Manual Check-in": handleManualScan is recordVisit
ManualCheckIn(i, tId) ==
    /\ ShopDashboardShown
    /\ i \in DOMAIN shops
    /\ OwnerView(shops[i])
    /\ IF tId # ""
       THEN recordVisit(shops[i].id, tId, ISODate(now))
       ELSE /\ lastAlert' = NoAlert
            /\ UNCHANGED <<now, scans, pendingScanShop, showVisitSuccess,
                           lastSuccessDate, timers>>
    /\ UNCHANGED <<tz, users, shops, currentUser, activeTab, regRole,
                   isRegistering, verifyingShopId, recentRegisteredShop>>

\* CustomerDashboard "Mark Visit Done": handleQuickComplete
handleQuickComplete(i, quickCode) ==
    /\ CustomerDashboardShown
    /\ i \in DOMAIN shops
    /\ IF quickCode = shops[i].secretCode
       THEN handleDirectManualCheckIn(shops[i].id, quickCode, "", ISODate(now))
       ELSE /\ lastAlert' = ErrorQuickCode
            /\ UNCHANGED <<now, scans, pendingScanShop, showVisitSuccess,
                           lastSuccessDate, timers>>
    /\ UNCHANGED <<tz, users, shops, currentUser, activeTab, regRole,
                   isRegistering, verifyingShopId, recentRegisteredShop>>

\* weekDays[0] of CustomerDashboard: the Sunday, local midnight, of the week
\* of viewDate
weekDays0 == StartOfWeek(viewDate)

\* the buttons left and right of the shown week: next.setDate(next.getDate()
\* + offset * 7)
changeWeek(offset) ==
    /\ CustomerDashboardShown
    /\ StartOfWeek(viewDate + offset * WeekLen * DayLen) \in
          {StartOfWeek(now) + k * WeekLen * DayLen : k \in -MaxWeeksAway..MaxWeeksAway}
    /\ viewDate' = viewDate + offset * WeekLen * DayLen
    /\ UNCHANGED <<tz, now, users, shops, scans, currentUser, activeTab, regRole,
                   isRegistering, verifyingShopId, recentRegisteredShop,
                   pendingScanShop, showVisitSuccess, lastSuccessDate, timers,
                   lastAlert>>

\* isEligible of a shop card of CustomerDashboard
isEligible(shop) ==
    IF currentUser = NoUser THEN FALSE
    ELSE Len(getWeeklyScans(currentUser.id, shop.id, weekDays0)) >= RewardDays

\* String.prototype.trim on the strings that can be typed
Trim(str) == IF str = " aB" THEN "aB" ELSE IF str = " " THEN "" ELSE str

\* ScannerView manual entry form; both fields are `required`
handleManualEntry(manualCode, manualSecret) ==
    /\ ScannerShown
    /\ manualCode # EmptyId /\ manualSecret # ""
    /\ IF Trim(manualSecret) # ""
       THEN handleDirectManualCheckIn(manualCode, Trim(manualSecret), "", ISODate(now))
       ELSE /\ onScanMatch(manualCode)
            /\ UNCHANGED <<now, scans, showVisitSuccess, lastSuccessDate, timers>>
    /\ UNCHANGED <<tz, users, shops, currentUser, activeTab, regRole,
                   isRegistering, verifyingShopId, recentRegisteredShop>>

\* A text is modelled by the sequence of its segments between ':'.  A shop
\* id `shop_${Date.now()}` holds no ':' and is one segment.
\* the QR code's value `loyalty_scan:${shop.id}`
ScanToken(shopId) == <<"loyalty_scan", shopId>>

\* the texts a camera can decode: the token of every typed shop id, a token
\* with a further segment, the bare prefix without ':' and a web address
DecodedTexts ==
    {ScanToken(id) : id \in TypedShopIds}
    \cup {ScanToken(id) \o <<Id("x", 0)>> : id \in TypedShopIds}
    \cup {<<"loyalty_scan">>, <<"https", UnknownShopId>>}

\* decodedText.startsWith('loyalty_scan:')
IsScanToken(decodedText) == decodedText[1] = "loyalty_scan" /\ Len(decodedText) >= 2

\* a plausible slip in the parse: the last segment for the second
ParseScanToken_LastSegment(decodedText) == decodedText[Len(decodedText)]

\* decodedText.split(':')[1]
ParseScanToken(decodedText) == decodedText[2]

\* ScannerView onScanSuccess
onScanSuccess(decodedText) ==
    /\ ScannerShown
    /\ IF IsScanToken(decodedText)
       THEN onScanMatch(ParseScanToken(decodedText))
       ELSE /\ lastAlert' = NoAlert
            /\ UNCHANGED pendingScanShop
    /\ UNCHANGED <<tz, now, users, shops, scans, currentUser, activeTab, regRole,
                   isRegistering, verifyingShopId, recentRegisteredShop,
                   showVisitSuccess, lastSuccessDate, timers>>

\* isAlreadyVisited of ScanConfirmationModal
isAlreadyVisited(visitDate) ==
    checkVisitedOnDate(currentUser.id, pendingScanShop.id, ToDateString(ParseDate(visitDate)))

\* ScanConfirmationModal "Complete Visit", rendered while !isAlreadyVisited
handleComplete(typedCode, tId, visitDate) ==
    /\ ScanModalOnTop
    /\ ~isAlreadyVisited(visitDate)
    /\ IF typedCode # pendingScanShop.secretCode
       THEN /\ lastAlert' = ErrorInvalidCode
            /\ UNCHANGED <<now, scans, pendingScanShop, showVisitSuccess,
                           lastSuccessDate, timers>>
       ELSE IF isAlreadyVisited(visitDate)
       THEN /\ lastAlert' = ErrorDuplicate
            /\ UNCHANGED <<now, scans, pendingScanShop, showVisitSuccess,
                           lastSuccessDate, timers>>
       ELSE recordVisit(pendingScanShop.id, tId, visitDate)
    /\ UNCHANGED <<tz, users, shops, currentUser, activeTab, regRole,
                   isRegistering, verifyingShopId, recentRegisteredShop>>

\* ScanConfirmationModal "Cancel" / "Close"
CancelScan ==
    /\ ScanModalOnTop
    /\ pendingScanShop' = NoShop
    /\ activeTab' = "customer"
    /\ lastAlert' = NoAlert
    /\ UNCHANGED <<tz, now, users, shops, scans, currentUser, regRole,
                   isRegistering, verifyingShopId, recentRegisteredShop,
                   showVisitSuccess, lastSuccessDate, timers>>

\* time passes; a pending timeout of recordVisit (3000 ms) runs before the
\* clock's next unit
Tick ==
    /\ ClockLeft
    /\ timers = 0
    /\ now' = now + 1
    /\ UNCHANGED <<tz, users, shops, scans, currentUser, activeTab, regRole,
                   isRegistering, verifyingShopId, recentRegisteredShop,
                   pendingScanShop, showVisitSuccess, lastSuccessDate, timers,
                   lastAlert>>

----------------------------------------------------------------------------
(* Storage found at startup: localStorage as an earlier session left it *)

SeedOwner == [id |-> Id("u_", 1), name |-> "Sunny", email |-> "sunny@example.com",
              role |-> "owner"]
SeedCustomer == [id |-> Id("u_", 2), name |-> "Ann", email |-> "ann@example.com",
                 role |-> "customer"]
SeedShop == [id |-> Id("shop_", 3), name |-> "Sunny's Pizza", type |-> "fast-food",
             ownerId |-> SeedOwner.id, ownerEmail |-> "sunny@example.com",
             verificationStatus |-> "unverified", licenseNumber |-> "",
             secretCode |-> "aB"]

\* the record of a visit of SeedCustomer at SeedShop made on local day d, one
\* clock unit after local midnight, in time zone z
SeedScan(d, z) ==
    [id |-> Id("scan_", d * DayLen + 1 - z), shopId |-> SeedShop.id,
     customerId |-> SeedCustomer.id, timestamp |-> d * DayLen + 1 - z,
     transactionId |-> ""]

\* visits on Thursday, Wednesday, ..., Sunday of the week of StartTime,
\* newest first
SeedWeek(z) == [i \in 1..(RewardDays - 1) |-> SeedScan(RewardDays - 1 - i, z)]

SeedAdmin == [id |-> Id("u_", 0), name |-> "Root", email |-> "root@example.com",
              role |-> "admin"]

\* visits on Friday, Thursday, ..., Sunday: a full reward week; the visit
\* of Friday was made at local midnight, before StartTime in every time zone
FullWeek(z) ==
    <<[SeedScan(RewardDays - 1, z) EXCEPT
          !.id = Id("scan_", (RewardDays - 1) * DayLen - z),
          !.timestamp = (RewardDays - 1) * DayLen - z]>> \o SeedWeek(z)

\* a user id that names no stored user
StaleUid == Id("u_", 4)

EmptyStore == [users |-> <<>>, shops |-> <<>>, scans |-> <<>>]
ShopStore == [users |-> <<SeedOwner, SeedCustomer>>, shops |-> <<SeedShop>>,
              scans |-> <<>>]
WeekStore(z) == [ShopStore EXCEPT !.scans = SeedWeek(z)]
FullWeekStore(z) == [ShopStore EXCEPT !.scans = FullWeek(z)]
AdminStore(z) == [WeekStore(z) EXCEPT !.users = <<SeedAdmin>> \o @]

\* a plausible slip in the load effect: the saved id taken for a user
\* without the lookup in loadedUsers
Load_NoLookup(store, savedUid) ==
    /\ users = store.users
    /\ shops = store.shops
    /\ scans = store.scans
    /\ IF savedUid # EmptyId
       THEN /\ currentUser = [NoUser EXCEPT !.id = savedUid, !.role = "customer"]
            /\ activeTab = "customer"
       ELSE /\ currentUser = NoUser
            /\ activeTab = "home"

\* the load effect of App, on storage `store` with logged-in user id `savedUid`
Load(store, savedUid) ==
    /\ users = store.users
    /\ shops = store.shops
    /\ scans = store.scans
    /\ LET found == FindById(store.users, savedUid) IN
       IF savedUid # EmptyId /\ found # <<>>
       THEN /\ currentUser = found[1]
            /\ activeTab = IF found[1].role = "owner" THEN "shop" ELSE "customer"
       ELSE /\ currentUser = NoUser
            /\ activeTab = "home"

\* what the persistence effect of App writes for the rendered state; an
\* absent LOGGED_IN_USER_ID item is the empty id
Stored ==
    [shops |-> shops, scans |-> scans, users |-> users,
     uid |-> IF currentUser # NoUser THEN currentUser.id ELSE EmptyId]

\* a plausible slip in the persistence effect: currentUser missing from the
\* dependency array
persistenceEffect_MissingDep ==
    storage' = IF <<shops, scans, users>>' = <<shops, scans, users>>
               THEN storage ELSE Stored'

\* the persistence effect of App, run after the render that follows a handler
persistenceEffect == storage' = Stored'

\* useState(new Date()) of CustomerDashboard at the first render; 0 stands
\* for no viewDate while no CustomerDashboard is mounted, where it is not read
FirstRender == IF CustomerDashboardMounted THEN now ELSE 0

\* the render that follows a handler: viewDate is made when CustomerDashboard
\* is mounted, kept while it stays mounted and gone when it is unmounted
mountEffect ==
    viewDate' = IF CustomerDashboardMounted /\ CustomerDashboardMounted'
                THEN viewDate ELSE FirstRender'

\* the state of a reloaded page once its effects have run, the load effect
\* having read `store`: useState's initial values, then the setters of the
\* load effect; the timers of the old page are gone
Startup(store) ==
    /\ regRole' = "customer"
    /\ isRegistering' = FALSE
    /\ verifyingShopId' = EmptyId
    /\ recentRegisteredShop' = NoShop
    /\ pendingScanShop' = NoShop
    /\ showVisitSuccess' = FALSE
    /\ lastSuccessDate' = NoDate
    /\ timers' = 0
    /\ lastAlert' = NoAlert
    /\ users' = store.users
    /\ shops' = store.shops
    /\ scans' = store.scans
    /\ LET found == FindById(store.users, store.uid) IN
       IF store.uid # EmptyId /\ found # <<>>
       THEN /\ currentUser' = found[1]
            /\ activeTab' = IF found[1].role = "owner" THEN "shop" ELSE "customer"
       ELSE /\ currentUser' = NoUser
            /\ activeTab' = "home"
    /\ UNCHANGED <<tz, now>>
    /\ viewDate' = FirstRender'

\* a plausible slip in the order of the two effects: the persistence effect
\* declared, and so run, before the load effect, which then reads what the
\* first render wrote
Restart_PersistFirst ==
    /\ Startup([shops |-> <<>>, scans |-> <<>>, users |-> <<>>, uid |-> EmptyId])
    /\ persistenceEffect

\* a reload of the page.  After the first render the load effect reads
\* storage, then the persistence effect writes the first render's empty
\* lists; the render with the loaded state follows and the persistence
\* effect writes again
Restart ==
    /\ Startup(storage)
    /\ persistenceEffect

InitUI ==
    /\ now = StartTime
    /\ regRole = "customer"
    /\ isRegistering = FALSE
    /\ verifyingShopId = EmptyId
    /\ recentRegisteredShop = NoShop
    /\ pendingScanShop = NoShop
    /\ showVisitSuccess = FALSE
    /\ lastSuccessDate = NoDate
    /\ timers = 0
    /\ lastAlert = NoAlert

Init ==
    /\ tz \in TZOffsets
    /\ InitUI
    /\ \/ Load(EmptyStore, EmptyId)
       \/ \E savedUid \in {SeedCustomer.id, StaleUid} :
             Load(WeekStore(tz), savedUid)
       \/ Load(FullWeekStore(tz), SeedOwner.id)
    /\ storage = Stored
    /\ viewDate = FirstRender

\* the form inputs tried: every valid choice, and each way of leaving a
\* required field empty
RegistrationInputs == {<<"Ann", "ann@example.com">>, <<"", "ann@example.com">>, <<"Ann", "">>}
ShopFormInputs ==
    {<<"Sunny's Pizza", "ann@example.com", t, c, r>> :
        t \in ShopTypes, c \in SecretInputs, r \in RandomDraws}
    \cup {<<"", "ann@example.com", "fast-food", "aB", 0>>,
          <<"Sunny's Pizza", "", "fast-food", "aB", 0>>}

Next ==
    \/ \E role \in RegRoles : HomeJoin(role) /\ mountEffect /\ persistenceEffect
    \/ GetStarted /\ mountEffect /\ persistenceEffect
    \/ \E role \in RegRoles : SetRegRole(role) /\ mountEffect /\ persistenceEffect
    \/ RegistrationShown /\ \E in \in RegistrationInputs : handleRegister(in[1], in[2])
          /\ mountEffect /\ persistenceEffect
    \/ logout /\ mountEffect /\ persistenceEffect
    \/ \E tab \in {"home", "customer", "scan", "shop"} : setActiveTab(tab) /\ mountEffect /\ persistenceEffect
    \/ OpenShopForm /\ mountEffect /\ persistenceEffect
    \/ CancelShopForm /\ mountEffect /\ persistenceEffect
    \/ ShopDashboardShown /\ isRegistering
          /\ \E in \in ShopFormInputs : addShop(in[1], in[2], in[3], in[4], in[5])
          /\ mountEffect /\ persistenceEffect
    \/ CloseRegistrationSuccess /\ mountEffect /\ persistenceEffect
    \/ StartVerification /\ mountEffect /\ persistenceEffect
    \/ ShopDashboardShown /\ \E i \in DOMAIN shops : VerifyNow(i)
          /\ mountEffect /\ persistenceEffect
    \/ CancelVerification /\ mountEffect /\ persistenceEffect
    \/ ShopDashboardShown /\ \E l \in Licenses : submitVerification(l)
          /\ mountEffect /\ persistenceEffect
    \/ ShopDashboardShown
          /\ \E i \in DOMAIN shops, t \in TransactionIds : ManualCheckIn(i, t)
          /\ mountEffect /\ persistenceEffect
    \/ CustomerDashboardShown
          /\ \E i \in DOMAIN shops, c \in TypedCodes : handleQuickComplete(i, c)
          /\ mountEffect /\ persistenceEffect
    \/ ScannerShown
          /\ \E id \in TypedShopIds, c \in ManualSecrets :
                handleManualEntry(id, c)
          /\ mountEffect /\ persistenceEffect
    \/ ScannerShown /\ \E txt \in DecodedTexts : onScanSuccess(txt)
          /\ mountEffect /\ persistenceEffect
    \/ ScanModalOnTop
          /\ \E c \in TypedCodes, t \in TransactionIds, d \in DateInputs(now) :
                handleComplete(c, t, d)
          /\ mountEffect /\ persistenceEffect
    \/ CancelScan /\ mountEffect /\ persistenceEffect
    \/ VisitSuccessTimeout /\ mountEffect /\ persistenceEffect
    \/ Tick /\ mountEffect /\ persistenceEffect

Spec == Init /\ [][Next]_vars

(* The application, started on storage that holds an admin account.  No    *)
(* handler creates a user of role admin: the account is in storage or it   *)
(* does not exist.  The device is at UTC: the time zones are explored by   *)
(* Spec.                                                                   *)

InitAdmin ==
    /\ tz = 0
    /\ InitUI
    /\ Load(AdminStore(tz), SeedAdmin.id)
    /\ storage = Stored
    /\ viewDate = FirstRender

NextAdmin ==
    \/ Next
    \/ OpenAdminPanel /\ mountEffect /\ persistenceEffect
    \/ BackToDashboard /\ mountEffect /\ persistenceEffect
    \/ AdminPanelShown
          /\ \E i \in DOMAIN shops, st \in {"verified", "unverified"} :
                updateVerificationStatus(i, st)
          /\ mountEffect /\ persistenceEffect

SpecAdmin == InitAdmin /\ [][NextAdmin]_vars

(* The application with reloads of the page.                                *)

NextRestart ==
    \/ Next
    \/ Restart

SpecRestart == Init /\ [][NextRestart]_vars

(* The application used with pointer and keyboard: the Logout button can   *)
(* be activated under an overlay.                                           *)

NextKeyboard ==
    \/ Next
    \/ logoutByKeyboard /\ mountEffect /\ persistenceEffect

SpecKeyboard == Init /\ [][NextKeyboard]_vars

(* The application with a user who goes on acting: a step is taken while   *)
(* some handler can run.                                                    *)

SpecFair == Spec /\ WF_vars(Next)

(* The application with the navigation of the Rewards Calendar.  changeWeek *)
(* writes viewDate only, and no handler reads viewDate.                     *)

NextCalendar ==
    \/ Next
    \/ \E offset \in {-1, 1} : changeWeek(offset) /\ persistenceEffect

SpecCalendar == Init /\ [][NextCalendar]_vars

----------------------------------------------------------------------------
(* Properties *)

\* the ids a property ranges over: every user and the empty id, every shop
\* and an id of no shop
CustomerIds == {users[i].id : i \in DOMAIN users} \cup {EmptyId}
ShopIds == {shops[i].id : i \in DOMAIN shops} \cup {UnknownShopId}

\* records a and b are of the same customer, shop and local calendar day
SameVisitDay(a, b) ==
    /\ a.customerId = b.customerId
    /\ a.shopId = b.shopId
    /\ ToDateString(a.timestamp) = ToDateString(b.timestamp)

\* the state the check-in handlers do not write
CheckInFrame == <<tz, users, shops, currentUser, activeTab, regRole, isRegistering,
                  verifyingShopId, recentRegisteredShop>>

\* C1: in every reachable state there is at most one visit record for every
\* customer, shop and local calendar day, whichever action created the
\* records, the owner dashboard's manual check-in included.
C1_OneRecordPerDay ==
    \A i, j \in DOMAIN scans : SameVisitDay(scans[i], scans[j]) => i = j

C4_UnknownShopRejected ==
    /\ [][ \A id \in TypedShopIds :
              FindById(shops, id) = <<>> =>
                 /\ \A c \in ManualSecrets :
                       handleManualEntry(id, c) =>
                          /\ scans' = scans
                          /\ pendingScanShop' = pendingScanShop
                          /\ lastAlert' = IF Trim(c) # "" THEN AlertInvalidShopId
                                          ELSE AlertInvalidShopCode
                 /\ onScanSuccess(ScanToken(id)) =>
                       /\ scans' = scans
                       /\ pendingScanShop' = pendingScanShop
                       /\ lastAlert' = AlertInvalidShopCode
         ]_vars
    /\ [](\A id \in TypedShopIds, t \in TransactionIds, d \in DateInputs(now) :
             (currentUser # NoUser /\ FindById(shops, id) = <<>>) =>
                /\ ENABLED (recordVisit(id, t, d) /\ UNCHANGED CheckInFrame)
                /\ ~ENABLED (/\ recordVisit(id, t, d)
                             /\ UNCHANGED CheckInFrame
                             /\ ~(/\ scans' = scans
                                  /\ pendingScanShop' = pendingScanShop
                                  /\ lastAlert' = AlertShopNotFound)))

\* C4 happens: a check-in for an id of no shop was refused while records exist
C4_Witness ==
    /\ lastAlert = AlertInvalidShopId
    /\ currentUser # NoUser
    /\ scans # <<>>
    /\ pendingScanShop = NoShop

\* the week starts C5 ranges over: one clock unit and one day after the
\* start of the previous week and of the current week, so that the records
\* of the current week's first days lie at, before and after a window's
\* start and at, before and after its end
WeekStarts ==
    {StartOfWeek(now) - k * WeekLen * DayLen + u : k \in {0, 1}, u \in {1, DayLen}}

\* the customers and shops that have a record, and one id of each kind that
\* has none
RecordCustomers == {scans[i].customerId : i \in DOMAIN scans} \cup {EmptyId}
RecordShops == {scans[i].shopId : i \in DOMAIN scans} \cup {UnknownShopId}

\* C5: for all customers C, shops S and week starts W, the number of entries
\* of getWeeklyScans(C, S, W) is the number of distinct local calendar dates
\* among the records of (C, S) with W <= timestamp < W + 7 days; several
\* visits on one day count once, and no matching record gives no entry.
C5_UniqueDayCount ==
    \A c \in RecordCustomers, s \in RecordShops, w \in WeekStarts :
        Len(getWeeklyScans(c, s, w)) =
            Cardinality({ToDateString(scans[i].timestamp) :
                            i \in {k \in DOMAIN scans :
                                      /\ scans[k].customerId = c
                                      /\ scans[k].shopId = s
                                      /\ w <= scans[k].timestamp
                                      /\ scans[k].timestamp < w + WeekLen * DayLen}})

\* C5 happens: a week holds two records of one day, counted once
C5_Witness ==
    \E c \in CustomerIds, s \in ShopIds :
        /\ Len(WeeklyFilter(c, s, StartOfWeek(now))) > 1
        /\ Len(getWeeklyScans(c, s, StartOfWeek(now))) = 1

\* the local calendar days of the records of (c, s) that lie in the week
\* (Sunday to Saturday) of local day `today`
DaysInWeekOf(c, s, today) ==
    {d \in {ToDateString(scans[i].timestamp) :
               i \in {k \in DOMAIN scans : scans[k].customerId = c /\ scans[k].shopId = s}} :
        d \div WeekLen = today \div WeekLen}

\* C6: getRewardEligibility(C, S) is true if and only if the records of
\* (C, S) cover at least 6 distinct calendar days of the current week, the
\* week that starts at the most recent Sunday, local midnight; records of
\* other weeks never count.
C6_EligibleIffSixDays ==
    \A c \in CustomerIds, s \in ShopIds :
        getRewardEligibility(c, s)
            <=> Cardinality(DaysInWeekOf(c, s, ToDateString(now))) >= RewardDays

\* C6 happens: a sixth day was recorded and the pair is eligible
C6_Witness ==
    \E c \in CustomerIds, s \in ShopIds :
        /\ getRewardEligibility(c, s)
        /\ scans[1].id[2] >= StartTime
        /\ scans[1].customerId = c

\* C7: while the current week does not change, eligibility of every
\* (customer, shop) pair is non-decreasing under every operation: once
\* getRewardEligibility is true it stays true.  Eligibility is computed from
\* scans and the clock: a step that changes neither cannot change it.
C7_EligibilityMonotone ==
    [][ <<scans, now>>' # <<scans, now>> =>
           \A c \in CustomerIds, s \in ShopIds :
              (getRewardEligibility(c, s) /\ StartOfWeek(now)' = StartOfWeek(now))
              => getRewardEligibility(c, s)'
      ]_vars

\* C7 happens: an eligible pair got the week's seventh day and is eligible
C7_Witness ==
    \E c \in CustomerIds, s \in ShopIds :
        /\ Len(getWeeklyScans(c, s, StartOfWeek(now))) = WeekLen
        /\ getRewardEligibility(c, s)

\* a step of one of the four callers of recordVisit
CheckInStep ==
    \/ \E i \in DOMAIN shops, t \in TransactionIds : ManualCheckIn(i, t)
    \/ \E i \in DOMAIN shops, c \in TypedCodes : handleQuickComplete(i, c)
    \/ \E id \in TypedShopIds, c \in ManualSecrets : handleManualEntry(id, c)
    \/ \E c \in TypedCodes, t \in TransactionIds, d \in DateInputs(now) :
          handleComplete(c, t, d)

\* C8: no operation removes or changes an existing visit record: a
\* successful recordVisit adds exactly one record and leaves the earlier
\* records, the shops and the users as they are, and every other step
\* (register, logout, add shop, submit / approve / reject / revoke
\* verification, a rejected check-in) leaves scans unchanged.
C8_RecordsOnlyAdded ==
    [][ scans' # scans =>
           /\ CheckInStep
           /\ lastAlert' = NoAlert
           /\ Len(scans') = Len(scans) + 1
           /\ SubSeq(scans', 2, Len(scans')) = scans
           /\ shops' = shops
           /\ users' = users
      ]_vars

\* C8 happens: a visit was recorded on top of earlier records, after the
\* admin had decided on a verification
C8_Witness ==
    /\ showVisitSuccess
    /\ Len(scans) > 1
    /\ scans[1].id[2] >= StartTime
    /\ \E i \in DOMAIN shops : shops[i].verificationStatus = "verified"

\* the record r is what recordVisit(shopId, transactionId, visitDate) is to
\* create at time `now` for the active user
RecordAsGiven(r, shopId, transactionId, visitDate) ==
    /\ r.shopId = shopId
    /\ r.customerId = currentUser.id
    /\ r.transactionId = transactionId
    /\ ToDateString(r.timestamp) = visitDate
    /\ TimeOfDay(r.timestamp) = TimeOfDay(now)

\* C9: a successful recordVisit(shopId, transactionRef, visitDate) creates a
\* record of shop shopId, of the active user, with the transaction reference
\* given, whose timestamp is on the local calendar day visitDate at the time
\* of day of the recording.
C9_RecordAsGiven ==
    [][ scans' # scans =>
           /\ \A i \in DOMAIN shops, t \in TransactionIds :
                 ManualCheckIn(i, t)
                 => RecordAsGiven(scans'[1], shops[i].id, t, ISODate(now))
           /\ \A i \in DOMAIN shops, c \in TypedCodes :
                 handleQuickComplete(i, c)
                 => RecordAsGiven(scans'[1], shops[i].id, "", ISODate(now))
           /\ \A id \in TypedShopIds, c \in ManualSecrets :
                 handleManualEntry(id, c)
                 => RecordAsGiven(scans'[1], id, "", ISODate(now))
           /\ \A c \in TypedCodes, t \in TransactionIds, d \in DateInputs(now) :
                 handleComplete(c, t, d)
                 => RecordAsGiven(scans'[1], pendingScanShop.id, t, d)
      ]_vars

----------------------------------------------------------------------------
(* Verification, users, persistence and views *)

\* the shop that the open verification form names
VerifyingShops == {i \in DOMAIN shops : shops[i].id = verifyingShopId}

\* C11: a shop becomes verified only by an admin's approval taken while it
\* is pending, and becomes pending only by a submission with a non-empty
\* license: no step moves a shop from unverified directly to verified, and
\* a shop is unverified when it is created.
C11_VerifiedOnlyByApproval ==
    [][ /\ \A i \in DOMAIN shops :
              /\ (/\ shops[i].verificationStatus # "verified"
                  /\ shops'[i].verificationStatus = "verified")
                 => /\ shops[i].verificationStatus = "pending"
                    /\ currentUser.role = "admin"
                    /\ updateVerificationStatus(i, "verified")
              /\ (/\ shops[i].verificationStatus # "pending"
                  /\ shops'[i].verificationStatus = "pending")
                 => /\ i \in VerifyingShops
                    /\ shops'[i].licenseNumber # ""
                    /\ \E l \in Licenses \ {""} : submitVerification(l)
        /\ \A i \in DOMAIN shops' \ DOMAIN shops :
              shops'[i].verificationStatus = "unverified"
      ]_vars

\* C11 happens: the admin is looking at a shop that was verified after a
\* license had been submitted for it
C11_Witness ==
    /\ AdminPanelShown
    /\ currentUser.role = "admin"
    /\ \E i \in DOMAIN shops :
          /\ shops[i].verificationStatus = "verified"
          /\ shops[i].licenseNumber # ""

\* C12: submitVerification with an empty license shows the validation
\* message and changes nothing: the shops (state and license number of the
\* named shop and of every other shop) and the open verification form stay
\* as they were.
C12_EmptyLicenseRejected ==
    [][ submitVerification("") =>
           /\ lastAlert' = "Please enter a valid license number."
           /\ shops' = shops
           /\ verifyingShopId' = verifyingShopId
           /\ UNCHANGED <<users, scans, currentUser, activeTab, storage>>
      ]_vars

\* C12 happens: an empty license was refused and the form is still open on
\* the unverified shop
C12_Witness ==
    /\ lastAlert = "Please enter a valid license number."
    /\ VerifyingShops # {}
    /\ \A i \in VerifyingShops :
          /\ shops[i].verificationStatus = "unverified"
          /\ shops[i].licenseNumber = ""

\* the changes of a shop's verification state
Transitions ==
    {<<"unverified", "pending">>, <<"pending", "verified">>,
     <<"pending", "unverified">>, <<"verified", "unverified">>}

\* C13: the only changes of a shop's verification state are unverified to
\* pending by a submission, pending to verified by approval, pending to
\* unverified by rejection and verified to unverified by revocation; the
\* verification form is never open on a pending or verified shop, so no
\* submission is applied to one.
C13_TransitionsOnly ==
    /\ [][ \A i \in DOMAIN shops :
              shops'[i].verificationStatus # shops[i].verificationStatus =>
                 /\ <<shops[i].verificationStatus,
                      shops'[i].verificationStatus>> \in Transitions
                 /\ IF shops'[i].verificationStatus = "pending"
                    THEN /\ i \in VerifyingShops
                         /\ \E l \in Licenses : submitVerification(l)
                    ELSE updateVerificationStatus(i, shops'[i].verificationStatus)
         ]_vars
    /\ [](\A i \in VerifyingShops : shops[i].verificationStatus = "unverified")

\* C13 happens: the form is open again on a shop whose earlier submission
\* the admin turned down or whose verification the admin revoked
C13_Witness ==
    /\ ShopDashboardShown
    /\ \E i \in VerifyingShops :
          /\ shops[i].verificationStatus = "unverified"
          /\ shops[i].licenseNumber # ""

\* C14: a shop's verification state is changed only while its owner or an
\* admin is the active user, also when the verification form the owner
\* opened is still open after a logout and the registration of another
\* owner.
C14_OnlyOwnerOrAdmin ==
    [][ \A i \in DOMAIN shops :
           shops'[i].verificationStatus # shops[i].verificationStatus =>
              \/ currentUser.id = shops[i].ownerId
              \/ currentUser.role = "admin"
      ]_vars

\* the fields of a shop that are fixed at creation
ShopIdentity(s) == <<s.id, s.name, s.type, s.ownerId, s.secretCode>>

\* C15: a shop's secret code, identifier, name, category and owner are fixed
\* at creation: every step (submission, approval, rejection, revocation, a
\* recorded visit and every other action) keeps every shop and leaves these
\* fields of it unchanged.
C15_ShopIdentityFixed ==
    [][ \A i \in DOMAIN shops :
           /\ i \in DOMAIN shops'
           /\ ShopIdentity(shops'[i]) = ShopIdentity(shops[i])
      ]_vars

\* C15 happens: a shop went through submission, approval or rejection and
\* back to unverified, and a visit was recorded at it in the run
C15_Witness ==
    \E i \in DOMAIN shops :
        /\ shops[i].verificationStatus = "unverified"
        /\ shops[i].licenseNumber # ""
        /\ \E j \in DOMAIN scans :
              scans[j].shopId = shops[i].id /\ scans[j].id[2] >= StartTime

\* C16: the user list only grows: no step removes a user or changes the
\* id, name, email or role of an existing user, and a step that changes the
\* list is a registration that appends exactly one user, the new active
\* user.
C16_UsersOnlyGrow ==
    [][ /\ \A i \in DOMAIN users :
              i \in DOMAIN users' /\ users'[i] = users[i]
        /\ users' # users =>
              /\ Len(users') = Len(users) + 1
              /\ users'[Len(users')] = currentUser'
              /\ \E in \in RegistrationInputs : handleRegister(in[1], in[2])
      ]_vars

\* C16 happens: a user registered on top of the stored users and logged out
C16_Witness ==
    /\ currentUser = NoUser
    /\ Len(users) > 1
    /\ users[Len(users)].id[2] >= StartTime

C18_ActiveUserIsAUser ==
    /\ [](currentUser = NoUser \/ currentUser \in Range(users))
    /\ [][ /\ (\E in \in RegistrationInputs :
                  handleRegister(in[1], in[2]) /\ in[1] # "" /\ in[2] # "")
              => /\ currentUser' = users'[Len(users')]
                 /\ currentUser' \notin Range(users)
           /\ logout => currentUser' = NoUser
         ]_vars

\* C18 happens: a user who registered in the run is the active user
\* alongside the stored users
C18_Witness ==
    /\ currentUser # NoUser
    /\ currentUser.id[2] >= StartTime
    /\ Len(users) > 1

\* C19: while an owner is active the view is never the customer dashboard,
\* and while a customer is active the view is never the shop-owner dashboard
\* or the admin panel, also after the delayed view switch that follows a
\* recorded visit.
C19_RoleViewsDisjoint ==
    /\ currentUser.role = "owner" => activeTab # "customer"
    /\ currentUser.role = "customer" => activeTab \notin {"shop", "admin"}

\* the customers a count ranges over: every user and every customerId of a
\* record
AllCustomers == CustomerIds \cup {scans[i].customerId : i \in DOMAIN scans}

\* C20: on the owner's dashboard every listed shop is owned by the active
\* user, and its eligible-customer count is the number of distinct
\* customers C for whom getRewardEligibility(C, shop) holds in the current
\* week.
C20_EligibleCount ==
    (ShopDashboardShown /\ currentUser.role = "owner") =>
        \A k \in DOMAIN filteredShops :
            /\ filteredShops[k].ownerId = currentUser.id
            /\ eligibleCount(filteredShops[k])
                  = Cardinality({c \in AllCustomers :
                        getRewardEligibility(c, filteredShops[k].id)})

\* C20 happens: the owner's dashboard lists a shop with one eligible
\* customer, after the owner recorded a visit of their own at it
C20_Witness ==
    /\ ShopDashboardShown
    /\ currentUser.role = "owner"
    /\ \E k \in DOMAIN filteredShops :
          /\ eligibleCount(filteredShops[k]) = 1
          /\ \E j \in DOMAIN scans :
                /\ scans[j].shopId = filteredShops[k].id
                /\ scans[j].customerId = currentUser.id

----------------------------------------------------------------------------
(* Scan tokens, independence of verification, week windows *)

\* the state that a scan that matches nothing leaves as it is
ScanFrame == <<tz, now, users, shops, scans, currentUser, activeTab, regRole,
               isRegistering, verifyingShopId, recentRegisteredShop,
               pendingScanShop, showVisitSuccess, lastSuccessDate, timers,
               storage>>

\* C21: for every registered shop, the token rendered for the shop parses to
\* the shop's id, also with further segments after it, so that a scan of it
\* opens the confirmation of exactly that shop; a decoded text that does not
\* start with `loyalty_scan:` matches nothing and changes no state.
C21_TokenRoundTrip ==
    [][ /\ \A i \in DOMAIN shops :
              /\ IsScanToken(ScanToken(shops[i].id))
              /\ ParseScanToken(ScanToken(shops[i].id)) = shops[i].id
              /\ \A txt \in {ScanToken(shops[i].id),
                             ScanToken(shops[i].id) \o <<Id("x", 0)>>} :
                    onScanSuccess(txt) => /\ pendingScanShop' = shops[i]
                                          /\ lastAlert' = NoAlert
        /\ \A txt \in DecodedTexts :
              (onScanSuccess(txt) /\ txt[1] # "loyalty_scan")
              => UNCHANGED ScanFrame
        /\ onScanSuccess(<<"loyalty_scan">>) => UNCHANGED ScanFrame
      ]_vars

\* C21 happens: a scan opened the confirmation of a registered shop
C21_Witness ==
    /\ activeTab = "scan"
    /\ ScanModalOnTop
    /\ pendingScanShop \in Range(shops)
    /\ lastAlert = NoAlert

\* a shop, and a list of shops, without the verification state and the
\* license number: what two states that differ only in these have in common
Badgeless(shop) == [shop EXCEPT !.verificationStatus = "", !.licenseNumber = ""]
BadgelessList(list) == [i \in DOMAIN list |-> Badgeless(list[i])]

\* the outcome of a check-in, <<message, records added>>, computed from a
\* list of shops L: of recordVisit, of the direct check-in and of the scan
\* confirmation for the shop P
RecordOutcome(L, shopId, tId, d) ==
    IF currentUser = NoUser THEN <<NoAlert, <<>>>>
    ELSE IF FindById(L, shopId) = <<>> THEN <<AlertShopNotFound, <<>>>>
    ELSE <<NoAlert, <<NewScan(shopId, tId, d)>>>>
DirectOutcome(L, shopId, secret, tId, d) ==
    IF FindById(L, shopId) = <<>> THEN <<AlertInvalidShopId, <<>>>>
    ELSE IF FindById(L, shopId)[1].secretCode # secret THEN <<AlertInvalidCode, <<>>>>
    ELSE IF checkVisitedOnDate(currentUser.id, shopId, ToDateString(ParseDate(d)))
    THEN <<AlertDuplicate, <<>>>>
    ELSE RecordOutcome(L, shopId, tId, d)
ConfirmOutcome(L, P, typed, tId, d) ==
    IF typed # P.secretCode THEN <<ErrorInvalidCode, <<>>>>
    ELSE RecordOutcome(L, P.id, tId, d)

\* the step has the outcome out
HasOutcome(out) == lastAlert' = out[1] /\ scans' = out[2] \o scans

\* C22: the outcome of every check-in (direct check-in from the quick form
\* and the manual entry, scan confirmation, recordVisit from the owner's
\* dashboard) is the outcome computed from the state without the shops'
\* verification state and license number: two states that differ only in
\* these accept or reject identically and add the same record.
C22_VerificationBlind ==
    [][ UNCHANGED CheckInFrame =>
        /\ CustomerDashboardShown => \A i \in DOMAIN shops, c \in TypedCodes :
              handleQuickComplete(i, c) =>
                 HasOutcome(IF c = Badgeless(shops[i]).secretCode
                            THEN DirectOutcome(BadgelessList(shops), shops[i].id, c,
                                               "", ISODate(now))
                            ELSE <<ErrorQuickCode, <<>>>>)
        /\ ScannerShown => \A id \in TypedShopIds, c \in ManualSecrets :
              (handleManualEntry(id, c) /\ Trim(c) # "") =>
                 HasOutcome(DirectOutcome(BadgelessList(shops), id, Trim(c), "",
                                          ISODate(now)))
        /\ ScanModalOnTop =>
             \A c \in TypedCodes, t \in TransactionIds, d \in DateInputs(now) :
              handleComplete(c, t, d) =>
                 HasOutcome(ConfirmOutcome(BadgelessList(shops),
                                           Badgeless(pendingScanShop), c, t, d))
        /\ ShopDashboardShown => \A i \in DOMAIN shops, t \in TransactionIds \ {""} :
              ManualCheckIn(i, t) =>
                 HasOutcome(RecordOutcome(BadgelessList(shops), shops[i].id, t,
                                          ISODate(now)))
      ]_vars

\* C22 happens: a customer's visit was recorded in the run at a verified
\* shop
C22_Witness ==
    \E j \in DOMAIN scans, i \in DOMAIN shops :
        /\ scans[j].id[2] >= StartTime
        /\ scans[j].shopId = shops[i].id
        /\ shops[i].verificationStatus = "verified"
        /\ scans[j].customerId = currentUser.id
        /\ currentUser.role = "customer"

\* the record r is counted by getWeeklyScans for the week starting at w
CountedIn(r, w) == r \in Range(WeeklyFilter(r.customerId, r.shopId, w))

\* the week starts that put the record r exactly on the start of a week and
\* exactly on the start of the following week
BoundaryStarts(r) == {r.timestamp, r.timestamp - WeekLen * DayLen}

\* the record r against the week of w and the following week
PartitionedAt(r, w) ==
    \E inWeek \in {CountedIn(r, w)}, inNext \in {CountedIn(r, w + WeekLen * DayLen)} :
        /\ ~(inWeek /\ inNext)
        /\ r.timestamp = w + WeekLen * DayLen => ~inWeek /\ inNext
        /\ r.timestamp = w => inWeek

\* every record is in one week of every two consecutive weeks that have it
\* on a start
WeeksPartition ==
    \A i \in DOMAIN scans : \A w \in BoundaryStarts(scans[i]) :
        PartitionedAt(scans[i], w)

\* C23: for a week start W and the following one, W + 7 days, no record is
\* counted in both weeks; a record exactly at W + 7 days is counted in the
\* later week only, and a record exactly at W is counted in the week of W.
\* This holds of all the records, stored and new, after every step that
\* changes the records.
C23_WeeksPartition == [][scans' # scans => WeeksPartition']_vars

\* C23 happens: a record made in the run starts a week that holds another
\* record of the same customer and shop
C23_Witness ==
    \E i, j \in DOMAIN scans :
        /\ scans[i].id[2] >= StartTime
        /\ scans[j].customerId = scans[i].customerId
        /\ scans[j].shopId = scans[i].shopId
        /\ scans[j].timestamp > scans[i].timestamp
        /\ CountedIn(scans[j], scans[i].timestamp)

----------------------------------------------------------------------------
(* Manual entry, the viewed week, reaching verified *)

\* C24: for every registered shop, whatever its stored secret, a manual
\* entry by an active customer that gives the shop's id and the secret
\* exactly as it is stored, on a day without a record of that customer at
\* that shop, adds a visit record.
C24_StoredSecretAccepted ==
    [][ \A i \in DOMAIN shops :
           ( /\ handleManualEntry(shops[i].id, shops[i].secretCode)
             /\ currentUser.role = "customer"
             /\ ~checkVisitedOnDate(currentUser.id, shops[i].id,
                                    ToDateString(ParseDate(ISODate(now)))) )
           => /\ Len(scans') = Len(scans) + 1
              /\ scans'[1].shopId = shops[i].id
              /\ scans'[1].customerId = currentUser.id
      ]_vars

\* C25: the reward-unlocked flag of a shop on the customer dashboard is that
\* of the current week: for every week the calendar is navigated to, it
\* equals getRewardEligibility(customer, shop).
C25_FlagOfCurrentWeek ==
    (CustomerDashboardMounted /\ currentUser # NoUser) =>
        \A i \in DOMAIN shops :
            isEligible(shops[i]) = getRewardEligibility(currentUser.id, shops[i].id)

SomeShopVerified == \E i \in DOMAIN shops : shops[i].verificationStatus = "verified"

\* without an admin account in storage no user is an admin, the admin panel
\* is never the view and no shop is verified
NoAdminNoVerified ==
    /\ \A i \in DOMAIN users : users[i].role # "admin"
    /\ currentUser # NoUser => currentUser.role # "admin"
    /\ activeTab # "admin"
    /\ ~SomeShopVerified

\* C26: from an empty store, registrations, the creation of a shop, the
\* submission of a license and the approval by an admin lead to a verified
\* shop: a user who goes on acting reaches a state where some shop is
\* verified.
C26_VerifiedReached ==
    (users = <<>> /\ shops = <<>>) => <>SomeShopVerified

----------------------------------------------------------------------------
(* Restart, who has visits, the view without a user, licenses *)

\* C27: a restart loses nothing: after it the lists of shops, visit records
\* and users in memory are those stored before it, storage is as it was
\* before it, and the active user is the stored one named by the stored
\* session id when there is one.
C27_RestartLosesNothing ==
    [][ Restart =>
          /\ shops' = storage.shops
          /\ scans' = storage.scans
          /\ users' = storage.users
          /\ storage' = storage
          /\ \A i \in DOMAIN storage.users :
                storage.users[i].id = storage.uid => currentUser' = storage.users[i]
      ]_vars

\* C27 happens: an owner registered in the run is the active user and the
\* role of the registration form is back at its initial value, which only a
\* restart brings about
C27_Witness ==
    /\ currentUser # NoUser
    /\ currentUser.role = "owner"
    /\ currentUser.id[2] >= StartTime
    /\ regRole = "customer"
    /\ shops # <<>>

\* C28: in every reachable state the customer of every visit record is a
\* registered user of role customer and its shop is a registered shop: no
\* visit is recorded for an owner or an admin.
C28_VisitsOfCustomers ==
    \A j \in DOMAIN scans :
        /\ \E i \in DOMAIN users : /\ users[i].id = scans[j].customerId
                                   /\ users[i].role = "customer"
        /\ \E i \in DOMAIN shops : shops[i].id = scans[j].shopId

\* the part of C28 about shops and registration: the customer of every
\* record is a registered user and its shop a registered shop
VisitsOfRegistered ==
    \A j \in DOMAIN scans :
        /\ \E i \in DOMAIN users : users[i].id = scans[j].customerId
        /\ \E i \in DOMAIN shops : shops[i].id = scans[j].shopId

\* C29: while no user is active the view is never the customer dashboard,
\* the shop dashboard or the admin panel; the view is home after logout and
\* stays home until a user registers, also when the timeout of a visit
\* recorded earlier runs after the logout.
C29_NoViewWithoutUser ==
    currentUser = NoUser => activeTab \notin {"customer", "shop", "admin"}

\* every pending or verified shop of the list has a license number
Licensed(list) ==
    \A i \in DOMAIN list :
        list[i].verificationStatus \in {"pending", "verified"} =>
            list[i].licenseNumber # ""

\* the decimal numerals of 1000 to 9999
FourDigitCodes == {ToString(n) : n \in 1000..9999}

\* C30: in every reachable state every pending or verified shop has a
\* non-empty license number, and every shop that a step adds is unverified,
\* has no license number and has a non-empty secret code: the owner's input
\* when that is non-empty, otherwise a decimal numeral of 1000 to 9999.
C30_LicensedAndFreshShops ==
    /\ Licensed(shops)
    /\ [][ /\ Licensed(shops')
           /\ \A i \in DOMAIN shops' \ DOMAIN shops :
                 /\ shops'[i].verificationStatus = "unverified"
                 /\ shops'[i].licenseNumber = ""
                 /\ shops'[i].secretCode # ""
                 /\ \E in \in ShopFormInputs :
                       /\ addShop(in[1], in[2], in[3], in[4], in[5])
                       /\ IF in[4] # "" THEN shops'[i].secretCode = in[4]
                          ELSE shops'[i].secretCode \in FourDigitCodes
         ]_vars

\* C30 happens: a shop created in the run with a generated secret is pending
\* or verified
C30_Witness ==
    \E i \in DOMAIN shops :
        /\ shops[i].id[2] >= StartTime
        /\ shops[i].secretCode \in FourDigitCodes
        /\ shops[i].verificationStatus \in {"pending", "verified"}

====
